---- MODULE Spec2Model ----
(***************************************************************************)
(* Model of the lgdmap client state layer (src/lib/stores/mapStore.ts):    *)
(* the four mirrored collections (pins, tags, region boundary, map         *)
(* settings), their loading and error flags, the session stores, the two   *)
(* derived stores, and every exported load / mutation function.            *)
(*                                                                         *)
(* Every exported function is asynchronous.  It runs synchronously up to   *)
(* its `await fetch(...)` (the action named after the function) and        *)
(* resumes when the response arrives (the action <function>_settle).       *)
(* Between `await fetch` and `await response.json()` the function reads    *)
(* and writes no store, so the two resumptions are one step of the model.  *)
(* The server is the environment here: it answers with any status and any  *)
(* body of the endpoint's shape, or the transport fails.                   *)
(***************************************************************************)
EXTENDS Integers, Sequences, FiniteSets, TLC

(***************************************************************************)
(* Bounds of the model.                                                    *)
(***************************************************************************)
MaxPins == 2        \* longest pin mirror / pin list the server returns
MaxTags == 1        \* longest tag mirror / tag list the server returns
MaxInFlight == 2    \* calls in flight besides the loads of loadAllData
MaxCalls == 2       \* calls handled in one run: store functions and page handlers

(***************************************************************************)
(* Values.                                                                 *)
(***************************************************************************)
Null == "null"                      \* JavaScript null of a string | null store
None == <<>>                        \* JavaScript null of an object | null store
Some(x) == <<x>>

Coll == {"pins", "tags", "boundary", "settings"}

PinIds == {"p1", "p2"}
TagIds == {"t1", "t2"}
TagNames == {"health", "culture"}

\* Pin (src/lib/types): the fields the store layer reads are id, mainTag and
\* supportingTags; the other fields travel with the record untouched.
Pin(id, mainTag, supportingTags) ==
  [id |-> id, mainTag |-> mainTag, supportingTags |-> supportingTags]
PinVals == {Pin("p1", "health", <<>>), Pin("p1", "culture", <<"health">>),
            Pin("p2", "health", <<"culture">>), Pin("p2", "culture", <<>>)}
TagVals == [id : TagIds, name : TagNames]

DefaultZoom == 6
defaultMapSettings == [defaultZoom |-> DefaultZoom]
SettingsVals == {defaultMapSettings, [defaultZoom |-> DefaultZoom + 1]}
BoundaryVals == {[name |-> "r1"], [name |-> "r2"]}

Range(s) == {s[i] : i \in DOMAIN s}

\* Sequences over S of length at most n whose elements have distinct ids (the
\* server's tables have the id as primary key).
RECURSIVE ListsUpTo(_, _)
ListsUpTo(S, n) ==
  IF n = 0 THEN {<<>>}
  ELSE LET shorter == ListsUpTo(S, n - 1)
       IN  shorter \cup {Append(l, x) : l \in {m \in shorter : Len(m) = n - 1},
                                        x \in S}

DistinctIds(l) == \A i, j \in DOMAIN l : l[i].id = l[j].id => i = j

PinLists == {l \in ListsUpTo(PinVals, MaxPins) : DistinctIds(l)}
TagLists == {l \in ListsUpTo(TagVals, MaxTags) : DistinctIds(l)}

(***************************************************************************)
(* Array helpers of the store functions.                                   *)
(***************************************************************************)
includes(s, x) == \E i \in DOMAIN s : s[i] = x

RECURSIVE filterNotId(_, _)
\* currentPins.filter(pin => pin.id !== id)
filterNotId(s, id) ==
  IF s = <<>> THEN <<>>
  ELSE IF Head(s).id # id THEN <<Head(s)>> \o filterNotId(Tail(s), id)
       ELSE filterNotId(Tail(s), id)

\* a map that puts the new record in every slot
mapReplaceById_everySlot(s, id, x) == [i \in DOMAIN s |-> x]

\* currentPins.map(pin => pin.id === id ? updatedPin : pin)
mapReplaceById(s, id, x) == [i \in DOMAIN s |-> IF s[i].id = id THEN x ELSE s[i]]

\* [...currentPins, createdPin]
spreadAppend(s, x) == s \o <<x>>

(***************************************************************************)
(* The derived stores.                                                     *)
(***************************************************************************)
\* a predicate that forgets the supporting tags
pinMatches_mainTagOnly(pin, F) == includes(F, pin.mainTag)

\* $filterTags.includes(pin.mainTag) ||
\* pin.supportingTags.some(tag => $filterTags.includes(tag))
pinMatches(pin, F) ==
  \/ includes(F, pin.mainTag)
  \/ \E k \in DOMAIN pin.supportingTags : includes(F, pin.supportingTags[k])

RECURSIVE filterMatching(_, _)
filterMatching(P, F) ==
  IF P = <<>> THEN <<>>
  ELSE IF pinMatches(Head(P), F) THEN <<Head(P)>> \o filterMatching(Tail(P), F)
       ELSE filterMatching(Tail(P), F)

filteredPinsOf(P, F) == IF Len(F) = 0 THEN P ELSE filterMatching(P, F)

RECURSIVE find(_, _)
\* $pins.find(pin => pin.id === id): the first match, or undefined (None)
find(P, id) ==
  IF P = <<>> THEN None
  ELSE IF Head(P).id = id THEN Some(Head(P)) ELSE find(Tail(P), id)

\* a projection that shows the first pin whenever something is selected
selectedPinOf_firstPin(P, sel) ==
  IF sel = Null \/ sel = "" \/ P = <<>> THEN None ELSE Some(Head(P))

\* if (!$selectedPinId) return null; return $pins.find(...) || null
selectedPinOf(P, sel) == IF sel = Null \/ sel = "" THEN None ELSE find(P, sel)

(***************************************************************************)
(* The exported functions, what they work on and what they read.           *)
(***************************************************************************)
Loads == {"loadPins", "loadTags", "loadRegionBoundary", "loadMapSettings"}
Mutations == {"addPin", "updatePin", "deletePin", "addTag", "updateTag", "deleteTag",
              "setRegionBoundary", "deleteRegionBoundary", "updateMapSettings"}
Fns == Loads \cup Mutations

CollOf(fn) ==
  CASE fn \in {"loadPins", "addPin", "updatePin", "deletePin"} -> "pins"
    [] fn \in {"loadTags", "addTag", "updateTag", "deleteTag"} -> "tags"
    [] fn \in {"loadRegionBoundary", "setRegionBoundary", "deleteRegionBoundary"} -> "boundary"
    [] fn \in {"loadMapSettings", "updateMapSettings"} -> "settings"

\* the functions that await response.json()
ReadsBody == Fns \ {"deletePin", "deleteTag", "deleteRegionBoundary"}
\* the functions that test the parsed record and its id
ChecksId == {"addPin", "updatePin", "addTag", "updateTag"}
\* the functions that test the parsed record only
ChecksRecord == {"setRegionBoundary", "updateMapSettings"}

\* the runtime flag of $app/environment; the store runs in the browser
browser == TRUE

\* response.ok
Ok(status) == status \in 200..299

\* toErrorMessage (src/lib/types): the message of an Error, else String(error),
\* else the fixed text
toErrorMessage(e) ==
  IF e.isError THEN e.message
  ELSE IF e.message # "" THEN e.message ELSE "Unknown error occurred"

Error(m) == [isError |-> TRUE, message |-> m]

\* A response: status 0 stands for fetch() rejecting (transport failure); json
\* tells whether response.json() resolves; data is the parsed body (None for
\* JSON null, Some(record) for a record, the list itself for a list).

\* a boundary load without the 404 branch
Absent404_settingsOnly(fn, resp) == fn = "loadMapSettings" /\ resp.status = 404

\* if (response.status === 404) { ...; return; } of the two optional records
Absent404(fn, resp) ==
  fn \in {"loadRegionBoundary", "loadMapSettings"} /\ resp.status = 404

\* What the try block throws on this response: None, or Some(error).
Thrown(fn, resp) ==
  IF resp.status = 0 THEN Some(Error("NetworkError"))
  ELSE IF Absent404(fn, resp) THEN None
  ELSE IF ~Ok(resp.status) THEN Some(Error("Failed"))
  ELSE IF fn \in ReadsBody /\ ~resp.json THEN Some(Error("SyntaxError"))
  ELSE IF fn \in ChecksId /\ (resp.data = None \/ resp.data[1].id = "")
       THEN Some(Error("Invalid response"))
  ELSE IF fn \in ChecksRecord /\ resp.data = None THEN Some(Error("Invalid response"))
  ELSE None

\* The store update of the try block, reached when nothing was thrown.
MirrorSet(fn, arg, resp, cur) ==
  CASE fn \in {"loadPins", "loadTags"} -> resp.data
    [] fn \in {"addPin", "addTag"} -> spreadAppend(cur, resp.data[1])
    [] fn \in {"updatePin", "updateTag"} -> mapReplaceById(cur, arg, resp.data[1])
    [] fn \in {"deletePin", "deleteTag"} -> filterNotId(cur, arg)
    [] fn = "loadRegionBoundary" -> IF resp.status = 404 THEN None ELSE resp.data
    [] fn = "setRegionBoundary" -> resp.data
    [] fn = "deleteRegionBoundary" -> None
    [] fn = "loadMapSettings" -> IF resp.status = 404 THEN cur ELSE resp.data[1]
    [] fn = "updateMapSettings" -> resp.data[1]

\* a load that empties its list before it fetches
MirrorAfter_loadResets(fn, arg, resp, cur) ==
  IF Thrown(fn, resp) # None
  THEN IF fn \in {"loadPins", "loadTags"} THEN <<>> ELSE cur
  ELSE MirrorSet(fn, arg, resp, cur)

\* a delete that removes the entry before it knows the answer
MirrorAfter_optimisticDelete(fn, arg, resp, cur) ==
  IF Thrown(fn, resp) # None
  THEN IF fn \in {"deletePin", "deleteTag"} THEN filterNotId(cur, arg) ELSE cur
  ELSE MirrorSet(fn, arg, resp, cur)

\* The mirror of the function's collection after the handler has run on resp,
\* cur being the mirror when the response arrives.
MirrorAfter(fn, arg, resp, cur) ==
  IF Thrown(fn, resp) # None THEN cur ELSE MirrorSet(fn, arg, resp, cur)

\* a catch block that only logs
ErrorAfter_logsOnly(fn, resp, cur) == cur

\* The error flag of the collection after the handler: the catch block sets it.
ErrorAfter(fn, resp, cur) ==
  IF Thrown(fn, resp) # None THEN toErrorMessage(Thrown(fn, resp)[1]) ELSE cur

\* a flag cleared at the end of the try block instead of in finally
LoadingAfter_noFinally(fn, resp, cur) == IF Thrown(fn, resp) = None THEN FALSE ELSE cur

\* The loading flag of the collection after the handler: the finally block.
LoadingAfter(fn, resp, cur) == FALSE

\* a catch block that rethrows
ExitOf_rethrows(fn, resp) == IF Thrown(fn, resp) # None THEN "throw" ELSE "return"

\* a body parsed after the try block
ExitOf_parsesOutsideTry(fn, resp) ==
  IF Ok(resp.status) /\ fn \in ReadsBody /\ ~resp.json THEN "throw" ELSE "return"

\* How the call ends: the catch block swallows every error.
ExitOf(fn, resp) == "return"

\* a delete that clears the selection whatever is selected
SelectionAfter_clearsAny(fn, arg, resp, sel) ==
  IF fn = "deletePin" /\ Thrown(fn, resp) = None THEN Null ELSE sel

\* deletePin: if (get(selectedPinId) === id) selectedPinId.set(null)
SelectionAfter(fn, arg, resp, sel) ==
  IF fn = "deletePin" /\ Thrown(fn, resp) = None /\ sel = arg THEN Null ELSE sel

(***************************************************************************)
(* What the server (the environment of this model) can answer.             *)
(***************************************************************************)
WithId(S, id) == {x \in S : x.id = id}

\* the parsed bodies of a success answer to call o
Bodies(o) ==
  CASE o.fn = "loadPins" -> PinLists
    [] o.fn = "loadTags" -> TagLists
    [] o.fn = "loadRegionBoundary" -> {Some(b) : b \in BoundaryVals}
    [] o.fn = "loadMapSettings" -> {Some(x) : x \in SettingsVals}
    [] o.fn = "addPin" ->
         {None} \cup {Some(x) : x \in PinVals} \cup {Some([x EXCEPT !.id = ""]) : x \in WithId(PinVals, "p1")}
    [] o.fn = "updatePin" -> {None} \cup {Some(x) : x \in WithId(PinVals, o.arg)}
    [] o.fn = "addTag" ->
         {None} \cup {Some(x) : x \in TagVals} \cup {Some([x EXCEPT !.id = ""]) : x \in WithId(TagVals, "t1")}
    [] o.fn = "updateTag" -> {None} \cup {Some(x) : x \in WithId(TagVals, o.arg)}
    [] o.fn = "setRegionBoundary" -> {None} \cup {Some(b) : b \in BoundaryVals}
    [] o.fn = "updateMapSettings" -> {None} \cup {Some(x) : x \in SettingsVals}
    [] OTHER -> {None}

\* the error statuses the route handler of the function's endpoint answers
ErrStatuses(fn) ==
  CASE fn \in {"loadPins", "loadTags", "addPin", "deleteRegionBoundary"} -> {500}
    [] fn \in {"loadRegionBoundary", "loadMapSettings", "updatePin", "deletePin"} -> {404, 500}
    [] fn = "addTag" -> {400, 409, 500}
    [] fn = "updateTag" -> {404, 409, 500}
    [] fn = "deleteTag" -> {400, 404, 500}
    [] fn \in {"setRegionBoundary", "updateMapSettings"} -> {400, 500}

\* the success status of the endpoint
OkStatus(fn) == IF fn \in {"addPin", "addTag"} THEN 201 ELSE 200

\* status 0: fetch() rejects; json FALSE: response.json() rejects
Responses(o) ==
  [status : {0} \cup ErrStatuses(o.fn), json : {FALSE}, data : {None}]
    \cup [status : {OkStatus(o.fn)}, json : {FALSE}, data : {None}]
    \cup [status : {OkStatus(o.fn)}, json : {TRUE}, data : Bodies(o)]

(***************************************************************************)
(* State.                                                                  *)
(***************************************************************************)
VARIABLES
  pins,             \* the pin mirror (persistentWritable 'pins')
  tags,             \* the tag mirror
  regionBoundary,   \* the boundary mirror: None or Some(boundary)
  mapSettings,      \* the settings mirror
  isLoading,        \* isLoadingPins, isLoadingTags, isLoadingBoundary, isLoadingSettings
  error,            \* pinsError, tagsError, boundaryError, settingsError
  selectedPinId,
  filterTags,
  ops,              \* the calls suspended at their await fetch(...)
  all,              \* the loadAllData call: its promise and what its loads did
  last,             \* the handler that ran in the step just taken
  calls,            \* calls handled so far
  focus             \* the collection whose functions the page calls in this run

\* The server: the database behind src/lib/db/client.ts and the route handlers.
VARIABLES
  db,               \* the tables, the serial sequences and the database clock
  reqs,             \* the route handlers suspended at an await db...
  log,              \* the requests answered so far, in the order of their answers
  group,            \* the tables the requests of this run work on
  handling          \* how the requests of this run arrive: "serial", each after
                    \* the answer to the one before it, or "concurrent"

svars == <<db, reqs, log, group, handling>>

\* the client's variables
cvars == <<pins, tags, regionBoundary, mapSettings, isLoading, error,
           selectedPinId, filterTags, ops, all, last, calls, focus>>

vars == <<pins, tags, regionBoundary, mapSettings, isLoading, error,
          selectedPinId, filterTags, ops, all, last, calls, focus, svars>>

\* no request reaches the server
ServerOff ==
  /\ db = [pins |-> <<>>, pin_supporting_tags |-> {}, tags |-> <<>>,
           region_boundaries |-> {}, map_settings |-> {},
           serial |-> [region_boundaries |-> 1, map_settings |-> 1], now |-> 1]
  /\ reqs = <<>>
  /\ log = <<>>
  /\ group = "none"
  /\ handling = "serial"

isLoadingPins == isLoading["pins"]
isLoadingTags == isLoading["tags"]
isLoadingBoundary == isLoading["boundary"]
isLoadingSettings == isLoading["settings"]
pinsError == error["pins"]
tagsError == error["tags"]
boundaryError == error["boundary"]
settingsError == error["settings"]

filteredPins == filteredPinsOf(pins, filterTags)
selectedPin == selectedPinOf(pins, selectedPinId)

Mirror(c) ==
  CASE c = "pins" -> pins
    [] c = "tags" -> tags
    [] c = "boundary" -> regionBoundary
    [] c = "settings" -> mapSettings

NoResp == [status |-> 0, json |-> FALSE, data |-> None]
NoEvent == [fn |-> "none", arg |-> Null, by |-> 0, what |-> "none", resp |-> NoResp,
            pre |-> None, errPre |-> Null, selPre |-> Null, selCall |-> FALSE,
            exit |-> "none"]

AllIdle == [pc |-> "idle", done |-> {},
            resp |-> [c \in Coll |-> NoResp], pre |-> [c \in Coll |-> None]]

WithName(S, n) == {x \in S : x.name = n}

\* the pin snapshots localStorage may hold at startup: none, one pin, two pins
InitPins == {<<>>, <<Pin("p1", "health", <<>>)>>,
             <<Pin("p1", "culture", <<"health">>), Pin("p2", "health", <<"culture">>)>>}

\* the seed tags of the tag store, cut to the model's tag names
seedTags == <<[id |-> "t1", name |-> "health"]>>

\* The stores after construction: the persisted ones hold the snapshot of
\* localStorage (any earlier mirror) or their initial value, the others their
\* initial value.
Init ==
  /\ pins \in InitPins
  /\ tags = seedTags
  /\ regionBoundary \in {None} \cup {Some(b) : b \in WithName(BoundaryVals, "r1")}
  /\ mapSettings = defaultMapSettings
  /\ isLoading = [c \in Coll |-> FALSE]
  /\ error = [c \in Coll |-> Null]
  /\ selectedPinId = Null
  /\ filterTags = <<>>
  /\ ops = {}
  /\ all = AllIdle
  /\ last = NoEvent
  /\ calls = 0
  /\ focus = "none"
  /\ ServerOff

(***************************************************************************)
(* Calling a store function: the synchronous part up to await fetch.       *)
(***************************************************************************)
Slots == 1..MaxInFlight
FreeSlots == {s \in Slots : \A o \in ops : o.by # s}

\* the record of loadAllData is dropped by the step after it settled
AllNext ==
  IF all.pc \in {"resolved", "rejected"} /\ (\A o \in ops : o.by # 0) THEN AllIdle ELSE all

\* fn(arg) is called from the page; arg = "" is the falsy argument on which
\* the function returns at once.  The functions of different collections
\* share no store, so a run of the model calls the functions of one
\* collection, the one of the first call.  n is the number of the request as
\* the server counts it, 0 where the server is the environment.
CallFn(fn, arg, n) ==
  /\ calls < MaxCalls
  /\ FreeSlots # {}
  /\ focus \in {"none", CollOf(fn)}
  /\ focus' = CollOf(fn)
  /\ calls' = calls + 1
  /\ UNCHANGED <<pins, tags, regionBoundary, mapSettings, selectedPinId, filterTags>>
  /\ IF ~browser \/ arg = ""
     THEN /\ UNCHANGED <<isLoading, error, ops>>
          /\ all' = AllNext
          /\ last' = [NoEvent EXCEPT !.fn = fn, !.arg = arg, !.what = "noop",
                                     !.exit = "return"]
     ELSE /\ isLoading' = [isLoading EXCEPT ![CollOf(fn)] = TRUE]
          /\ error' = [error EXCEPT ![CollOf(fn)] = Null]
          /\ ops' = ops \cup {[fn |-> fn, arg |-> arg, n |-> n,
                               by |-> CHOOSE s \in FreeSlots : \A t \in FreeSlots : s <= t,
                               selCall |-> (fn = "deletePin" /\ selectedPinId = arg)]}
          /\ all' = AllNext
          /\ last' = NoEvent

Call(fn, arg) == CallFn(fn, arg, 0) /\ UNCHANGED svars

\* loadAllData: Promise.all over the four loads, each started at once.  In a
\* run of the model it is the startup call (the module calls it when it is
\* loaded) and the only call of the run.
loadAllData ==
  /\ calls = 0
  /\ \A o \in ops : o.by # 0
  /\ browser
  /\ calls' = MaxCalls
  /\ UNCHANGED focus
  /\ isLoading' = [c \in Coll |-> TRUE]
  /\ error' = [c \in Coll |-> Null]
  /\ ops' = ops \cup {[fn |-> fn, arg |-> Null, n |-> 0, by |-> 0, selCall |-> FALSE] :
                       fn \in Loads}
  /\ all' = [AllIdle EXCEPT !.pc = "pending",
                            !.pre = [c \in Coll |-> Mirror(c)]]
  /\ last' = NoEvent
  /\ UNCHANGED <<pins, tags, regionBoundary, mapSettings, selectedPinId, filterTags>>
  /\ UNCHANGED svars

(***************************************************************************)
(* The response arrives: the rest of the function runs to its end, through *)
(* try, catch and finally.                                                 *)
(***************************************************************************)
\* call o of fn resumes on resp (maxLen bounds the lists of the model)
SettleOn(fn, o, resp, maxLen) ==
  LET c == CollOf(fn)
      new == MirrorAfter(fn, o.arg, resp, Mirror(c))
      exit == ExitOf(fn, resp)
      left == {x \in ops \ {o} : x.by = 0}
  IN  /\ o.fn = fn
      /\ c \in {"pins", "tags"} => Len(new) <= maxLen[c]
      /\ pins' = IF c = "pins" THEN new ELSE pins
      /\ tags' = IF c = "tags" THEN new ELSE tags
      /\ regionBoundary' = IF c = "boundary" THEN new ELSE regionBoundary
      /\ mapSettings' = IF c = "settings" THEN new ELSE mapSettings
      /\ error' = [error EXCEPT ![c] = ErrorAfter(fn, resp, error[c])]
      /\ isLoading' = [isLoading EXCEPT ![c] = LoadingAfter(fn, resp, isLoading[c])]
      /\ selectedPinId' = SelectionAfter(fn, o.arg, resp, selectedPinId)
      /\ ops' = ops \ {o}
      /\ all' = IF o.by = 0
                THEN [all EXCEPT !.done = @ \cup {c},
                                 !.resp[c] = resp,
                                 !.pc = IF @ = "rejected" \/ exit = "throw" THEN "rejected"
                                        ELSE IF left = {} THEN "resolved" ELSE @]
                ELSE AllNext
      /\ last' = [fn |-> fn, arg |-> o.arg, by |-> o.by, what |-> "settle",
                  resp |-> resp, pre |-> Mirror(c), errPre |-> error[c],
                  selPre |-> selectedPinId, selCall |-> o.selCall, exit |-> exit]
      /\ UNCHANGED <<filterTags, calls, focus>>

Settle(fn) ==
  \E o \in ops : \E resp \in Responses(o) :
    /\ SettleOn(fn, o, resp, [pins |-> MaxPins, tags |-> MaxTags])
    /\ UNCHANGED svars

(***************************************************************************)
(* The exported functions.                                                 *)
(***************************************************************************)
Given == "given"    \* an argument that is not falsy

loadPins == Call("loadPins", Null)
loadTags == Call("loadTags", Null)
loadRegionBoundary == Call("loadRegionBoundary", Null)
loadMapSettings == Call("loadMapSettings", Null)
addPin == Call("addPin", Null)
updatePin == \E id \in PinIds \cup {""} : Call("updatePin", id)
deletePin == \E id \in PinIds \cup {""} : Call("deletePin", id)
addTag == \E name \in {Given, ""} : Call("addTag", name)
updateTag == \E id \in TagIds \cup {""} : Call("updateTag", id)
deleteTag == \E id \in TagIds \cup {""} : Call("deleteTag", id)
setRegionBoundary == \E boundary \in {Given, ""} : Call("setRegionBoundary", boundary)
deleteRegionBoundary == Call("deleteRegionBoundary", Null)
updateMapSettings == \E settings \in {Given, ""} : Call("updateMapSettings", settings)

loadPins_settle == Settle("loadPins")
loadTags_settle == Settle("loadTags")
loadRegionBoundary_settle == Settle("loadRegionBoundary")
loadMapSettings_settle == Settle("loadMapSettings")
addPin_settle == Settle("addPin")
updatePin_settle == Settle("updatePin")
deletePin_settle == Settle("deletePin")
addTag_settle == Settle("addTag")
updateTag_settle == Settle("updateTag")
deleteTag_settle == Settle("deleteTag")
setRegionBoundary_settle == Settle("setRegionBoundary")
deleteRegionBoundary_settle == Settle("deleteRegionBoundary")
updateMapSettings_settle == Settle("updateMapSettings")

(***************************************************************************)
(* The page's handlers on the session stores (src/routes/+page.svelte).    *)
(***************************************************************************)
Page(A) ==
  /\ calls < MaxCalls
  /\ A
  /\ calls' = calls + 1
  /\ all' = AllNext
  /\ last' = NoEvent
  /\ UNCHANGED <<pins, tags, regionBoundary, mapSettings, isLoading, error, ops, focus>>
  /\ UNCHANGED svars

\* selectPin(pin.id), for a pin of the list the page shows
selectPin ==
  \E i \in DOMAIN filteredPins :
    Page(selectedPinId' = filteredPins[i].id /\ selectedPinId # filteredPins[i].id
         /\ UNCHANGED filterTags)

\* the close button of the detail sidebar, shown while a pin is selected
closeDetails ==
  Page(selectedPin # None /\ selectedPinId' = Null /\ UNCHANGED filterTags)

\* the updater of toggleTagFilter
toggled(current, tag) ==
  IF includes(current, tag) THEN SelectSeq(current, LAMBDA t : t # tag)
  ELSE current \o <<tag>>

\* toggleTagFilter(tag.name), for a tag of the tag mirror
toggleTagFilter ==
  \E i \in DOMAIN tags :
    Page(filterTags' = toggled(filterTags, tags[i].name) /\ UNCHANGED selectedPinId)

Next ==
  \/ loadAllData
  \/ loadPins \/ loadTags \/ loadRegionBoundary \/ loadMapSettings
  \/ addPin \/ updatePin \/ deletePin
  \/ addTag \/ updateTag \/ deleteTag
  \/ setRegionBoundary \/ deleteRegionBoundary \/ updateMapSettings
  \/ loadPins_settle \/ loadTags_settle \/ loadRegionBoundary_settle
  \/ loadMapSettings_settle
  \/ addPin_settle \/ updatePin_settle \/ deletePin_settle
  \/ addTag_settle \/ updateTag_settle \/ deleteTag_settle
  \/ setRegionBoundary_settle \/ deleteRegionBoundary_settle
  \/ updateMapSettings_settle
  \/ selectPin \/ closeDetails \/ toggleTagFilter

Spec == Init /\ [][Next]_vars

(***************************************************************************)
(* The tag filter on its own: any pin mirror, the page toggling the filter *)
(* buttons of three tags any number of times.                              *)
(***************************************************************************)
FilterTags == <<[id |-> "t1", name |-> "health"], [id |-> "t2", name |-> "culture"],
                [id |-> "t3", name |-> "education"]>>
FilterPinVals == [id : PinIds, mainTag : {FilterTags[i].name : i \in DOMAIN FilterTags},
                  supportingTags : {<<>>, <<"health">>, <<"culture", "education">>}]

InitFilter ==
  /\ pins \in ListsUpTo(FilterPinVals, MaxPins)
  /\ tags = FilterTags
  /\ regionBoundary = None
  /\ mapSettings = defaultMapSettings
  /\ isLoading = [c \in Coll |-> FALSE]
  /\ error = [c \in Coll |-> Null]
  /\ selectedPinId = Null
  /\ filterTags = <<>>
  /\ ops = {}
  /\ all = AllIdle
  /\ last = NoEvent
  /\ calls = 0
  /\ focus = "none"
  /\ ServerOff

toggleTagFilter_only ==
  \E i \in DOMAIN tags :
    /\ filterTags' = toggled(filterTags, tags[i].name)
    /\ UNCHANGED <<pins, tags, regionBoundary, mapSettings, isLoading, error,
                   selectedPinId, ops, all, last, calls, focus>>
    /\ UNCHANGED svars

NextFilter == toggleTagFilter_only

SpecFilter == InitFilter /\ [][NextFilter]_vars

(***************************************************************************)
(* Properties.  `last` describes the handler that ran in the step just     *)
(* taken: the call it belonged to, the response it ran on and the stores   *)
(* as they were when the response arrived.                                 *)
(***************************************************************************)
Settled == last.what = "settle"
LastColl == CollOf(last.fn)

\* the transport failed, or the answer has a non-success status
RemoteFailed(r) == r.status = 0 \/ r.status < 200 \/ r.status > 299
\* the answer 404 to the boundary load or the settings load
NotFoundOnLoad(fn, r) == r.status = 404 /\ fn \in {"loadRegionBoundary", "loadMapSettings"}
\* a success status whose body the function parses and finds unusable
BadBody(fn, r) ==
  /\ ~RemoteFailed(r)
  /\ \/ fn \in ReadsBody /\ ~r.json
     \/ fn \in {"addPin", "updatePin", "addTag", "updateTag"} /\ r.json
          /\ (r.data = None \/ r.data[1].id = "")
     \/ fn \in {"setRegionBoundary", "updateMapSettings"} /\ r.json /\ r.data = None
Succeeded(fn, r) == ~RemoteFailed(r) /\ ~BadBody(fn, r)
HoldsMessage(e) == e # Null /\ e # ""

\* C1 as stated: a load that gets any non-success response or a transport
\* failure leaves the mirror as it was and its error flag holds a message.
C1_AsStated ==
  (Settled /\ last.fn \in Loads /\ RemoteFailed(last.resp))
    => (Mirror(LastColl) = last.pre /\ HoldsMessage(error[LastColl]))

\* C1 (amended): a load that gets a non-success response or a transport
\* failure leaves the mirror as it was and its error flag holds a message,
\* unless the response is a 404 to the boundary load or the settings load; on
\* that 404 no error is recorded, the boundary mirror becomes null and the
\* settings mirror stays as it was.
C1_LoadFailureKeepsMirror ==
  /\ (Settled /\ last.fn \in Loads /\ RemoteFailed(last.resp)
        /\ ~NotFoundOnLoad(last.fn, last.resp))
       => (Mirror(LastColl) = last.pre /\ HoldsMessage(error[LastColl]))
  /\ (Settled /\ last.fn \in Loads /\ NotFoundOnLoad(last.fn, last.resp))
       => /\ error[LastColl] = last.errPre
          /\ last.fn = "loadRegionBoundary" => regionBoundary = None
          /\ last.fn = "loadMapSettings" => mapSettings = last.pre

C1_Witness ==
  /\ Settled /\ last.fn = "loadPins" /\ last.resp.status = 500
  /\ last.pre # <<>> /\ pins = last.pre /\ pinsError # Null

C3_SuccessSplices ==
  (Settled /\ Succeeded(last.fn, last.resp)) =>
    LET new == Mirror(LastColl)
        old == last.pre
    IN  /\ last.fn \in {"addPin", "addTag"} =>
             /\ Len(new) = Len(old) + 1
             /\ new[Len(new)] = last.resp.data[1]
             /\ \A i \in DOMAIN old : new[i] = old[i]
        /\ last.fn \in {"updatePin", "updateTag"} =>
             /\ Len(new) = Len(old)
             /\ \A i \in DOMAIN old :
                  new[i] = IF old[i].id = last.arg THEN last.resp.data[1] ELSE old[i]
        /\ last.fn \in {"deletePin", "deleteTag"} =>
             new = SelectSeq(old, LAMBDA x : x.id # last.arg)

C3_Witness ==
  /\ Settled /\ last.fn = "updatePin" /\ Succeeded(last.fn, last.resp)
  /\ Len(last.pre) = 2 /\ last.pre[1].id = last.arg /\ last.pre[2].id # last.arg
  /\ pins[1] = last.resp.data[1] /\ pins[1] # last.pre[1] /\ pins[2] = last.pre[2]

\* C4: when a load or a mutation has finished, with success or with failure,
\* the loading flag of its collection is false.
C4_LoadingCleared == Settled => ~isLoading[LastColl]

C4_Witness ==
  /\ Settled /\ last.fn = "addTag" /\ RemoteFailed(last.resp)
  /\ ~isLoadingTags /\ tagsError # Null

\* C5: loadAllData starts the four loads together, its promise is pending
\* exactly while one of them is in flight, it resolves when the last of them
\* has finished, and it never rejects, however many of them fail.
LoadsOfAll == {o \in ops : o.by = 0}
C5_LoadAllResolves ==
  /\ all.pc # "rejected"
  /\ all.pc = "pending" <=> LoadsOfAll # {}
  /\ all.pc = "pending" =>
       \A c \in Coll \ all.done : \E o \in LoadsOfAll : o.fn \in Loads /\ CollOf(o.fn) = c
  /\ all.pc = "resolved" => all.done = Coll

C5_Witness ==
  /\ all.pc = "resolved"
  /\ Cardinality({c \in Coll : RemoteFailed(all.resp[c])}) >= 2
  /\ \E c \in Coll : Succeeded("loadPins", all.resp[c])

\* C6: when loadAllData has run (in the model no other call of the store
\* overlaps it) and exactly one endpoint failed (transport failure, an error status other than
\* the 404 that reports an absent boundary or settings record, or an
\* unreadable body) while the other three answered with their data, the three
\* mirrors hold the returned data and their error flags are null, and the
\* failing collection has its error flag set and its mirror as before.
LoadOf(c) ==
  CASE c = "pins" -> "loadPins" [] c = "tags" -> "loadTags"
    [] c = "boundary" -> "loadRegionBoundary" [] c = "settings" -> "loadMapSettings"
EndpointFailed(c) ==
  \/ RemoteFailed(all.resp[c]) /\ ~NotFoundOnLoad(LoadOf(c), all.resp[c])
  \/ BadBody(LoadOf(c), all.resp[c])
EndpointAnswered(c) == all.resp[c].status = 200 /\ all.resp[c].json
Returned(c) ==
  IF c \in {"pins", "tags", "boundary"} THEN all.resp[c].data ELSE all.resp[c].data[1]
C6_OneEndpointFails ==
  (all.pc = "resolved" /\ last.by = 0 /\ Settled) =>
    \A f \in Coll :
      (EndpointFailed(f) /\ \A c \in Coll \ {f} : EndpointAnswered(c)) =>
        /\ HoldsMessage(error[f])
        /\ Mirror(f) = all.pre[f]
        /\ \A c \in Coll \ {f} : Mirror(c) = Returned(c) /\ error[c] = Null

C6_Witness ==
  /\ all.pc = "resolved" /\ Settled /\ last.by = 0
  /\ all.resp["boundary"].status = 500
  /\ \A c \in Coll \ {"boundary"} : EndpointAnswered(c)
  /\ boundaryError # Null /\ pinsError = Null
  /\ pins # all.pre["pins"] /\ regionBoundary # None

\* C7 as stated: no call throws, and every failure of the remote call
\* (transport error, non-success status, malformed body) ends with the error
\* flag of the collection set.
C7_AsStated ==
  Settled =>
    /\ last.exit = "return"
    /\ (RemoteFailed(last.resp) \/ BadBody(last.fn, last.resp))
         => HoldsMessage(error[LastColl])

\* C7 (amended): no call throws or rejects; every failure of the remote call
\* ends with the error flag of the collection set and a normal return, except
\* the 404 answer to the boundary load or the settings load, which returns
\* normally and sets no error flag.
C7_NeverThrows ==
  /\ last.what \in {"settle", "noop"} => last.exit = "return"
  /\ (Settled /\ (RemoteFailed(last.resp) \/ BadBody(last.fn, last.resp))
        /\ ~NotFoundOnLoad(last.fn, last.resp))
       => HoldsMessage(error[LastColl])
  /\ (Settled /\ NotFoundOnLoad(last.fn, last.resp)) => error[LastColl] = last.errPre

C7_Witness ==
  /\ Settled /\ last.fn = "setRegionBoundary" /\ BadBody(last.fn, last.resp)
  /\ last.exit = "return" /\ boundaryError # Null

\* C8 as stated: deletePin(id) called while id is selected leaves the
\* selection null once the call has completed, whatever its outcome.
C8_AsStated ==
  (Settled /\ last.fn = "deletePin" /\ last.selCall) => selectedPinId = Null

\* C8 (amended): when deletePin(id) completes with success while id is the
\* selected pin id, the selection is null afterwards; when it fails, or
\* another pin is selected, the selection stays as it was.
C8_DeleteClearsSelection ==
  (Settled /\ last.fn = "deletePin") =>
    IF Succeeded(last.fn, last.resp) /\ last.selPre = last.arg
    THEN selectedPinId = Null
    ELSE selectedPinId = last.selPre

C8_Witness ==
  /\ Settled /\ last.fn = "deletePin" /\ Succeeded(last.fn, last.resp)
  /\ last.selCall /\ last.selPre = last.arg /\ selectedPinId = Null

\* C9: filteredPins is the pin mirror when the filter is empty, and otherwise
\* exactly the pins of the mirror, in the mirror's order, whose main tag is in
\* the filter or which have a supporting tag in the filter.
C9_FilteredPins ==
  LET F == Range(filterTags)
  IN  filteredPins =
        IF F = {} THEN pins
        ELSE SelectSeq(pins, LAMBDA x : x.mainTag \in F \/ Range(x.supportingTags) \cap F # {})

C9_Witness ==
  /\ Len(filterTags) = 2 /\ Len(pins) = 2 /\ Len(filteredPins) = 1
  /\ filteredPins[1] = pins[2]
  /\ ~ (pins[2].mainTag \in Range(filterTags))

\* C10: selectedPin is the pin of the mirror whose id is selectedPinId (the
\* first one, should several have it), and null when selectedPinId is null or
\* no pin of the mirror has that id.
C10_SelectedPin ==
  LET hits == {i \in DOMAIN pins : pins[i].id = selectedPinId}
  IN  IF selectedPinId = Null \/ hits = {}
      THEN selectedPin = None
      ELSE selectedPin = Some(pins[CHOOSE i \in hits : \A j \in hits : i <= j])

C10_Witness ==
  /\ selectedPinId # Null /\ Len(pins) = 2 /\ pins[2].id = selectedPinId
  /\ selectedPin = Some(pins[2])


(***************************************************************************)
(* THE SERVER.  Bounds of the server runs.                                 *)
(***************************************************************************)
MaxRequests == 3     \* requests the server receives in one run
MaxConcurrent == 2   \* route handlers in flight at the same time

(***************************************************************************)
(* JSON request bodies.  A field of a body is None (absent: undefined in   *)
(* the handler) or Some(value).                                            *)
(***************************************************************************)
Truthy(f) == f # None /\ f[1] # ""           \* a string field: !!data.f
TruthyNum(f) == f # None /\ f[1] # 0         \* a number field: !!data.f
OrElse(f, d) == IF Truthy(f) THEN f[1] ELSE d        \* data.f || d
OrElseNum(f, d) == IF TruthyNum(f) THEN f[1] ELSE d  \* data.f || d, numbers

TextBlock == [type |-> "text", value |-> "v"]        \* a PinContent
\* a JSON value in the place of a position: arr is Array.isArray(value)
Position(lat, lng) == [arr |-> TRUE, lat |-> lat, lng |-> lng]

\* bodies of POST /api/pins: the first as addPin sends it (pinData, with the
\* id the client generated) and carrying a timestamp, which no handler reads
PostPinBodies ==
  { [id |-> Some("p2"), title |-> Some("a"), position |-> Some(Position(0, 1)),
     mainTag |-> Some("health"), supportingTags |-> Some(<<>>),
     content |-> Some(<<TextBlock>>), createdAt |-> Some(0)],
    [id |-> None, title |-> Some("b"), position |-> Some(Position(1, 1)),
     mainTag |-> Some("culture"), supportingTags |-> Some(<<"health", "health">>),
     content |-> Some(<<>>), createdAt |-> None],
    [id |-> None, title |-> None, position |-> None, mainTag |-> None,
     supportingTags |-> None, content |-> None, createdAt |-> None],
    [id |-> None, title |-> Some("c"), position |-> Some(Position(1, 0)),
     mainTag |-> Some("culture"), supportingTags |-> Some(<<"health", "">>),
     content |-> Some(<<>>), createdAt |-> None] }

\* bodies of PUT /api/pins/[id]
PutPinBodies ==
  { [title |-> Some("c"), position |-> None, mainTag |-> None,
     supportingTags |-> None],
    [title |-> Some("a"), position |-> None, mainTag |-> None,
     supportingTags |-> Some(<<"health">>)],
    [title |-> Some("b"), position |-> None, mainTag |-> None,
     supportingTags |-> Some(<<"culture">>)],
    [title |-> None, position |-> None, mainTag |-> None,
     supportingTags |-> Some(<<"health">>)] }

\* bodies of POST /api/tags and PUT /api/tags/[id]
PostTagBodies ==
  { [id |-> None, name |-> Some("health"), color |-> Some("red")],
    [id |-> Some("t3"), name |-> Some("sport"), color |-> None],
    [id |-> None, name |-> None, color |-> Some("red")] }
PutTagBodies ==
  { [name |-> Some("health"), color |-> None],
    [name |-> None, color |-> Some("blue")] }

\* a JSON value in the place of the coordinates: arr is Array.isArray(value),
\* pairs says that every element is an array of length 2
Coordinates(v) == [arr |-> TRUE, pairs |-> TRUE, v |-> v]
NotCoordinates == [arr |-> FALSE, pairs |-> FALSE, v |-> "x"]

\* bodies of PUT /api/boundary
PutBoundaryBodies ==
  { [name |-> Some("r1"), coordinates |-> Some(Coordinates("c1")),
     minZoom |-> Some(5), maxZoom |-> Some(10)],
    [name |-> Some("r2"), coordinates |-> Some(Coordinates("c2")),
     minZoom |-> Some(0), maxZoom |-> Some(12)],
    [name |-> Some("r2"), coordinates |-> Some(Coordinates("c2")),
     minZoom |-> None, maxZoom |-> None],
    [name |-> None, coordinates |-> Some(Coordinates("c1")),
     minZoom |-> Some(5), maxZoom |-> Some(10)],
    [name |-> Some("r1"), coordinates |-> Some(NotCoordinates),
     minZoom |-> Some(5), maxZoom |-> Some(10)] }

\* bodies of PUT /api/settings (the four list fields default alike and are
\* left out)
PutSettingsBodies ==
  { [defaultCenter |-> Some(Position(52, 19)), defaultZoom |-> Some(6)],
    [defaultCenter |-> Some(Position(50, 20)), defaultZoom |-> Some(7)],
    [defaultCenter |-> None, defaultZoom |-> Some(6)],
    [defaultCenter |-> Some(Position(52, 19)), defaultZoom |-> None] }

\* generateId(): two random base-36 strings
GeneratedIds == {"g1"}


(***************************************************************************)
(* The query layer (src/lib/db/client.ts) over the tables of initDatabase. *)
(* A statement is atomic; it yields the new tables, the rows it returns    *)
(* and the error it throws, if any.                                        *)
(***************************************************************************)
DbOk(d, rows) == [db |-> d, rows |-> rows, error |-> None]
DbErr(d, m) == [db |-> d, rows |-> <<>>, error |-> Some(m)]

DuplicateKey == "duplicate key value violates unique constraint (23505)"
ForeignKey == "violates foreign key constraint (23503)"

\* JSON.stringify of a parameter and the JSONB column that parses it
stringify(v) == [json |-> v]
jsonb(text) == text.json

\* NOW() of a statement; the clock moves on with every statement that reads it
Tick(d) == [d EXCEPT !.now = @ + 1]

getPinById(d, id) ==
  IF id = "" THEN DbErr(d, "Pin ID is required")
  ELSE DbOk(d, IF id \in DOMAIN d.pins THEN <<d.pins[id]>> ELSE <<>>)

createPin_stampsTwice(d, pin) ==
  IF pin.id = "" THEN DbErr(d, "Valid pin data is required")
  ELSE IF pin.id \in DOMAIN d.pins THEN DbErr(d, DuplicateKey)
  ELSE LET row == [id |-> pin.id, title |-> pin.title,
                   position_lat |-> pin.position_lat,
                   position_lng |-> pin.position_lng,
                   main_tag |-> pin.main_tag,
                   content |-> jsonb(stringify(pin.content)),
                   created_at |-> d.now, updated_at |-> d.now + 1]
       IN  DbOk(Tick(Tick([d EXCEPT !.pins = @ @@ (pin.id :> row)])), <<row>>)

\* INSERT INTO pins ... VALUES (..., NOW(), NOW()) RETURNING *
createPin(d, pin) ==
  IF pin.id = "" THEN DbErr(d, "Valid pin data is required")
  ELSE IF pin.id \in DOMAIN d.pins THEN DbErr(d, DuplicateKey)
  ELSE LET row == [id |-> pin.id, title |-> pin.title,
                   position_lat |-> pin.position_lat,
                   position_lng |-> pin.position_lng,
                   main_tag |-> pin.main_tag,
                   content |-> jsonb(stringify(pin.content)),
                   created_at |-> d.now, updated_at |-> d.now]
       IN  DbOk(Tick([d EXCEPT !.pins = @ @@ (pin.id :> row)]), <<row>>)

\* the columns an update sets: Object.keys(updates)
UpdateKeys(updates) == {k \in DOMAIN updates : updates[k] # None}

updatePin_keepsUpdatedAt(d, id, updates) ==
  IF id = "" THEN DbErr(d, "Pin ID is required")
  ELSE IF UpdateKeys(updates) = {} THEN DbErr(d, "Updates are required")
  ELSE IF id \notin DOMAIN d.pins THEN DbOk(d, <<>>)
  ELSE LET old == d.pins[id]
           row == [k \in DOMAIN old |->
                     IF k \in UpdateKeys(updates) THEN updates[k][1] ELSE old[k]]
       IN  DbOk(Tick([d EXCEPT !.pins[id] = row]), <<row>>)

\* UPDATE pins SET <the keys of updates>, updated_at = NOW() WHERE id = $1
\* RETURNING *
updatePin_db(d, id, updates) ==
  IF id = "" THEN DbErr(d, "Pin ID is required")
  ELSE IF UpdateKeys(updates) = {} THEN DbErr(d, "Updates are required")
  ELSE IF id \notin DOMAIN d.pins THEN DbOk(d, <<>>)
  ELSE LET old == d.pins[id]
           row == [k \in DOMAIN old |->
                     IF k \in UpdateKeys(updates) THEN updates[k][1]
                     ELSE IF k = "updated_at" THEN d.now
                     ELSE old[k]]
       IN  DbOk(Tick([d EXCEPT !.pins[id] = row]), <<row>>)

Without(f, x) == [y \in DOMAIN f \ {x} |-> f[y]]

\* a pins table whose rows nothing references: the associations stay
deletePin_noCascade(d, id) ==
  IF id = "" THEN DbErr(d, "Pin ID is required")
  ELSE DbOk([d EXCEPT !.pins = Without(@, id)], <<>>)

\* DELETE FROM pins WHERE id = $1; pin_supporting_tags.pin_id is declared
\* REFERENCES pins(id) ON DELETE CASCADE
deletePin_db(d, id) ==
  IF id = "" THEN DbErr(d, "Pin ID is required")
  ELSE DbOk([d EXCEPT !.pins = Without(@, id),
                      !.pin_supporting_tags = {t \in @ : t[1] # id}], <<>>)

\* DELETE FROM pin_supporting_tags WHERE pin_id = $1
deleteSupportingTags(d, id) ==
  DbOk([d EXCEPT !.pin_supporting_tags = {t \in @ : t[1] # id}], <<>>)

\* INSERT INTO pin_supporting_tags ... ON CONFLICT (pin_id, tag_name) DO NOTHING
addPinSupportingTag(d, pinId, tagName) ==
  IF pinId = "" THEN DbErr(d, "Pin ID is required")
  ELSE IF tagName = "" THEN DbErr(d, "Tag name is required")
  ELSE IF pinId \notin DOMAIN d.pins THEN DbErr(d, ForeignKey)
  ELSE IF <<pinId, tagName>> \in d.pin_supporting_tags THEN DbOk(d, <<>>)
  ELSE DbOk([d EXCEPT !.pin_supporting_tags = @ \cup {<<pinId, tagName>>}],
            <<[pin_id |-> pinId, tag_name |-> tagName]>>)

\* SELECT tag_name FROM pin_supporting_tags WHERE pin_id = $1: the tag names,
\* which the database returns in an order of its choice
supportingTagsOf(d, id) == {t[2] : t \in {u \in d.pin_supporting_tags : u[1] = id}}
Orderings(S) == {q \in ListsUpTo(S, Cardinality(S)) : Range(q) = S}

\* SELECT * FROM pins ORDER BY created_at DESC: the ids of the rows in the
\* orders the database may return (rows of one timestamp in any order)
getPins(d) ==
  {q \in Orderings(DOMAIN d.pins) :
     \A i, j \in DOMAIN q : i < j => d.pins[q[i]].created_at >= d.pins[q[j]].created_at}

\* the tag names of the model in the order of ORDER BY name
NameOrder == <<"culture", "health", "sport">>
RankOf(name) == CHOOSE i \in DOMAIN NameOrder : NameOrder[i] = name

\* SELECT * FROM tags ORDER BY name: the ids of the rows in that order
getTags(d) ==
  CHOOSE q \in Orderings(DOMAIN d.tags) :
    \A i, j \in DOMAIN q : i < j => RankOf(d.tags[q[i]].name) < RankOf(d.tags[q[j]].name)

\* SELECT * FROM tags WHERE id = $1
selectTag(d, id) == DbOk(d, IF id \in DOMAIN d.tags THEN <<d.tags[id]>> ELSE <<>>)

TagIdsNamed(d, name) == {i \in DOMAIN d.tags : d.tags[i].name = name}

\* INSERT INTO tags ... ON CONFLICT (name) DO UPDATE SET color = $3 RETURNING *
createTag(d, tag) ==
  IF tag.id = "" \/ tag.name = "" THEN DbErr(d, "Valid tag data is required")
  ELSE IF TagIdsNamed(d, tag.name) # {}
       THEN LET i == CHOOSE j \in TagIdsNamed(d, tag.name) : TRUE
                row == [d.tags[i] EXCEPT !.color = tag.color]
            IN  DbOk([d EXCEPT !.tags[i] = row], <<row>>)
  ELSE IF tag.id \in DOMAIN d.tags THEN DbErr(d, DuplicateKey)
  ELSE DbOk([d EXCEPT !.tags = @ @@ (tag.id :> tag)], <<tag>>)

\* UPDATE tags SET name = $2, color = $3 WHERE id = $1 RETURNING *, with
\* name || '' and color || ''; tags.name is UNIQUE
updateTag_db(d, id, updates) ==
  IF id = "" THEN DbErr(d, "Tag ID is required")
  ELSE IF id \notin DOMAIN d.tags THEN DbOk(d, <<>>)
  ELSE IF TagIdsNamed(d, updates.name) \ {id} # {} THEN DbErr(d, DuplicateKey)
  ELSE LET row == [id |-> id, name |-> updates.name, color |-> updates.color]
       IN  DbOk([d EXCEPT !.tags[id] = row], <<row>>)

\* DELETE FROM tags WHERE id = $1
deleteTag_db(d, id) ==
  IF id = "" THEN DbErr(d, "Tag ID is required")
  ELSE DbOk([d EXCEPT !.tags = Without(@, id)], <<>>)

\* SELECT id FROM pins WHERE main_tag = $1 LIMIT 1
pinsWithMainTag(d, name) == {i \in DOMAIN d.pins : d.pins[i].main_tag = name}
\* SELECT pin_id FROM pin_supporting_tags WHERE tag_name = $1 LIMIT 1
supportingTagUse(d, name) == {t \in d.pin_supporting_tags : t[2] = name}

\* DELETE FROM region_boundaries
deleteBoundaries(d) == DbOk([d EXCEPT !.region_boundaries = {}], <<>>)

\* INSERT INTO region_boundaries (...) VALUES (...) RETURNING *; id is SERIAL
insertBoundary(d, b) ==
  LET row == [id |-> d.serial.region_boundaries, name |-> b.name,
              coordinates |-> jsonb(stringify(b.coordinates)),
              min_zoom |-> b.min_zoom, max_zoom |-> b.max_zoom]
  IN  DbOk([d EXCEPT !.region_boundaries = @ \cup {row},
                     !.serial.region_boundaries = @ + 1], <<row>>)

\* INSERT INTO map_settings (...) VALUES (...) RETURNING *; id is SERIAL
insertSettings(d, st) ==
  LET row == [id |-> d.serial.map_settings,
              default_center |-> jsonb(stringify(st.default_center)),
              default_zoom |-> st.default_zoom]
  IN  DbOk([d EXCEPT !.map_settings = @ \cup {row},
                     !.serial.map_settings = @ + 1], <<row>>)

\* UPDATE map_settings SET ... RETURNING *: no WHERE clause, every row
updateSettings(d, st) ==
  LET new == {[id |-> r.id,
               default_center |-> jsonb(stringify(st.default_center)),
               default_zoom |-> st.default_zoom] : r \in d.map_settings}
  IN  DbOk([d EXCEPT !.map_settings = new], new)


(***************************************************************************)
(* Route handlers.  A handler runs from one await db... to the next in one *)
(* step; the handlers of different requests interleave at these points.    *)
(***************************************************************************)
Received == Len(log) + Cardinality(DOMAIN reqs)
Idle == DOMAIN reqs = {}

\* a request as its handler holds it: the route, params.id, the parsed body,
\* the statement it awaits (pc) and its locals (loc); began, wrote, removed,
\* refd, dup, before and clock (the database clock at the handler's INSERT)
\* record what the handler met, for the properties
NewRequest(route, id, data, pc, loc) ==
  [n |-> Received + 1, route |-> route, id |-> id, data |-> data, pc |-> pc,
   loc |-> loc, began |-> Len(log), wrote |-> FALSE, removed |-> FALSE,
   refd |-> FALSE, dup |-> FALSE, before |-> None, clock |-> 0]

CanArrive(grp) ==
  /\ Received < MaxRequests
  /\ Cardinality(DOMAIN reqs) < (IF handling = "serial" THEN 1 ELSE MaxConcurrent)
  /\ group \in {"none", "seeded", grp}

\* the handler starts and suspends at its first statement
ArriveReq(grp, route, id, data, pc, loc) ==
  /\ CanArrive(grp)
  /\ group' = grp
  /\ reqs' = reqs @@ ((Received + 1) :> NewRequest(route, id, data, pc, loc))
  /\ UNCHANGED <<db, log, handling>>

\* the handler answers before any statement (input validation)
RefuseReq(grp, route, id, data, status, body) ==
  /\ CanArrive(grp)
  /\ group' = grp
  /\ log' = Append(log, [req |-> NewRequest(route, id, data, "done", None),
                         status |-> status, body |-> body])
  /\ UNCHANGED <<db, reqs, handling>>

\* a request that no call of the store has sent
Arrive(grp, route, id, data, pc, loc) ==
  ArriveReq(grp, route, id, data, pc, loc) /\ UNCHANGED cvars
Refuse(grp, route, id, data, status, body) ==
  RefuseReq(grp, route, id, data, status, body) /\ UNCHANGED cvars

\* r after a statement that left the tables as d
Mark(r, d) == [r EXCEPT !.wrote = @ \/ d # db]

\* the statement leaves the tables as d and the handler returns json(body)
Reply(r, d, status, body) ==
  /\ db' = d
  /\ reqs' = Without(reqs, r.n)
  /\ log' = Append(log, [req |-> Mark(r, d), status |-> status, body |-> body])
  /\ UNCHANGED <<group, handling, cvars>>

\* the statement leaves the tables as d and the handler goes on as r2
Goto(r, d, r2) ==
  /\ db' = d
  /\ reqs' = [reqs EXCEPT ![r.n] = Mark(r2, d)]
  /\ UNCHANGED <<log, group, handling, cvars>>

ErrorBody(m) == [error |-> m]
\* catch (error): json({ error: toErrorMessage(error) }, { status: 500 })
Caught(r, res) == Reply(r, res.db, 500, ErrorBody(res.error[1]))

\* the handlers of route at statement pc
At(route, pc) == {n \in DOMAIN reqs : reqs[n].route = route /\ reqs[n].pc = pc}

\* Transform to frontend format
toPin(row, supportingTags) ==
  [id |-> row.id, title |-> row.title,
   position |-> <<row.position_lat, row.position_lng>>,
   mainTag |-> row.main_tag, supportingTags |-> supportingTags,
   content |-> row.content, createdAt |-> row.created_at,
   updatedAt |-> row.updated_at]

\* Array.isArray(data.supportingTags) ? data.supportingTags : []
TagsOf(data) == IF data.supportingTags # None THEN data.supportingTags[1] ELSE <<>>

(***************************************************************************)
(* GET /api/pins (without ?tag)                                            *)
(***************************************************************************)
GET_pins_request == ArriveReq("pins", "GET /api/pins", "", None, "getPins", None)

GET_pins == GET_pins_request /\ UNCHANGED cvars

\* db.getPins() and the transformation of the rows, the supporting tags
\* still empty
GET_pins_getPins ==
  \E n \in At("GET /api/pins", "getPins") : \E q \in getPins(db) :
    LET transformedPins == [i \in DOMAIN q |-> toPin(db.pins[q[i]], <<>>)]
    IN  IF transformedPins = <<>> THEN Reply(reqs[n], db, 200, <<>>)
        ELSE Goto(reqs[n], db, [reqs[n] EXCEPT !.pc = "selectTags",
                                !.loc = [transformedPins |-> transformedPins, i |-> 1]])

\* Fetch supporting tags for each pin: one query per pin
GET_pins_selectTags ==
  \E n \in At("GET /api/pins", "selectTags") :
    LET r == reqs[n]
        pin == r.loc.transformedPins[r.loc.i]
    IN  \E order \in Orderings(supportingTagsOf(db, pin.id)) :
          LET filled == [r.loc.transformedPins EXCEPT ![r.loc.i].supportingTags = order]
          IN  IF r.loc.i < Len(filled)
              THEN Goto(r, db, [r EXCEPT !.loc = [transformedPins |-> filled,
                                                  i |-> r.loc.i + 1]])
              ELSE Reply(r, db, 200, filled)

(***************************************************************************)
(* POST /api/pins                                                          *)
(***************************************************************************)
\* a handler that always generates the id
pinIdOf_generated(data, gid) == gid

\* id: data.id || generateId()
pinIdOf(data, gid) == OrElse(data.id, gid)

\* the handler up to its first statement, on the body data; gid is what
\* generateId() returns
POST_pins_request(data, gid) ==
  LET position == IF data.position # None /\ data.position[1].arr
                  THEN data.position[1] ELSE Position(0, 0)
      pin == [id |-> pinIdOf(data, gid),
              title |-> OrElse(data.title, "Untitled"),
              position_lat |-> position.lat,
              position_lng |-> position.lng,
              main_tag |-> OrElse(data.mainTag, ""),
              content |-> IF data.content # None THEN data.content[1] ELSE <<>>]
  IN  ArriveReq("pins", "POST /api/pins", "", data, "createPin", [pin |-> pin])

POST_pins ==
  \E data \in PostPinBodies : \E gid \in GeneratedIds :
    POST_pins_request(data, gid) /\ UNCHANGED cvars

\* the response of POST: the created row with the supporting tags of the body
POST_pins_response(r, createdPin) == toPin(createdPin, TagsOf(r.data))

POST_pins_createPin ==
  \E n \in At("POST /api/pins", "createPin") :
    LET r == [reqs[n] EXCEPT !.clock = db.now]
        res == createPin(db, r.loc.pin)
    IN  IF res.error # None THEN Caught(r, res)
        ELSE IF TagsOf(r.data) # <<>>
        THEN Goto(r, res.db, [r EXCEPT !.pc = "addPinSupportingTag",
                                       !.loc = [createdPin |-> res.rows[1], i |-> 1]])
        ELSE Reply(r, res.db, 201, POST_pins_response(r, res.rows[1]))

POST_pins_addPinSupportingTag ==
  \E n \in At("POST /api/pins", "addPinSupportingTag") :
    LET r == reqs[n]
        res == addPinSupportingTag(db, r.loc.createdPin.id, TagsOf(r.data)[r.loc.i])
    IN  IF res.error # None THEN Caught(r, res)
        ELSE IF r.loc.i < Len(TagsOf(r.data))
        THEN Goto(r, res.db, [r EXCEPT !.loc.i = @ + 1])
        ELSE Reply(r, res.db, 201, POST_pins_response(r, r.loc.createdPin))

(***************************************************************************)
(* GET /api/pins/[id]                                                      *)
(***************************************************************************)
GET_pin ==
  \E id \in PinIds : Arrive("pins", "GET /api/pins/[id]", id, None, "getPinById", None)

GET_pin_getPinById ==
  \E n \in At("GET /api/pins/[id]", "getPinById") :
    LET r == reqs[n]
        res == getPinById(db, r.id)
    IN  IF res.rows = <<>> THEN Reply(r, db, 404, ErrorBody("Pin not found"))
        ELSE Goto(r, db, [r EXCEPT !.pc = "selectTags", !.loc = [pin |-> res.rows[1]]])

GET_pin_selectTags ==
  \E n \in At("GET /api/pins/[id]", "selectTags") :
    \E order \in Orderings(supportingTagsOf(db, reqs[n].id)) :
      Reply(reqs[n], db, 200, toPin(reqs[n].loc.pin, order))

(***************************************************************************)
(* PUT /api/pins/[id]                                                      *)
(***************************************************************************)
PUT_pin ==
  \E id \in PinIds : \E data \in PutPinBodies :
    Arrive("pins", "PUT /api/pins/[id]", id, data, "getPinById", None)

PUT_pin_getPinById ==
  \E n \in At("PUT /api/pins/[id]", "getPinById") :
    LET r == reqs[n]
        res == getPinById(db, r.id)
    IN  IF res.rows = <<>> THEN Reply(r, db, 404, ErrorBody("Pin not found"))
        ELSE Goto(r, db, [r EXCEPT !.pc = "updatePin",
                                   !.before = Some([row |-> res.rows[1],
                                                    tags |-> supportingTagsOf(db, r.id)])])

\* Prepare update data: the columns the body gives (no body of the model
\* gives content)
UpdatesOf(data) ==
  LET given == data.position # None /\ data.position[1].arr
  IN  [title |-> data.title,
       position_lat |-> IF given THEN Some(data.position[1].lat) ELSE None,
       position_lng |-> IF given THEN Some(data.position[1].lng) ELSE None,
       main_tag |-> data.mainTag]

PUT_pin_updatePin ==
  \E n \in At("PUT /api/pins/[id]", "updatePin") :
    LET r == reqs[n]
        res == updatePin_db(db, r.id, UpdatesOf(r.data))
    IN  IF res.error # None THEN Caught(r, res)
        ELSE IF res.rows = <<>>
        THEN Reply(r, res.db, 500, ErrorBody("Failed to update pin"))
        ELSE Goto(r, res.db, [r EXCEPT !.pc = IF r.data.supportingTags # None
                                              THEN "deleteTags" ELSE "selectTags",
                                       !.loc = [updatedPin |-> res.rows[1], i |-> 1]])

PUT_pin_deleteTags ==
  \E n \in At("PUT /api/pins/[id]", "deleteTags") :
    LET r == reqs[n]
        res == deleteSupportingTags(db, r.id)
    IN  Goto(r, res.db, [r EXCEPT !.pc = IF TagsOf(r.data) # <<>>
                                         THEN "addPinSupportingTag" ELSE "selectTags"])

PUT_pin_addPinSupportingTag ==
  \E n \in At("PUT /api/pins/[id]", "addPinSupportingTag") :
    LET r == reqs[n]
        res == addPinSupportingTag(db, r.id, TagsOf(r.data)[r.loc.i])
    IN  IF res.error # None THEN Caught(r, res)
        ELSE IF r.loc.i < Len(TagsOf(r.data))
        THEN Goto(r, res.db, [r EXCEPT !.loc.i = @ + 1])
        ELSE Goto(r, res.db, [r EXCEPT !.pc = "selectTags"])

PUT_pin_selectTags ==
  \E n \in At("PUT /api/pins/[id]", "selectTags") :
    \E order \in Orderings(supportingTagsOf(db, reqs[n].id)) :
      Reply(reqs[n], db, 200, toPin(reqs[n].loc.updatedPin, order))

(***************************************************************************)
(* DELETE /api/pins/[id]                                                   *)
(***************************************************************************)
DELETE_pin_request(id) ==
  ArriveReq("pins", "DELETE /api/pins/[id]", id, None, "getPinById", None)

DELETE_pin == \E id \in PinIds : DELETE_pin_request(id) /\ UNCHANGED cvars

DELETE_pin_getPinById ==
  \E n \in At("DELETE /api/pins/[id]", "getPinById") :
    LET r == reqs[n]
        res == getPinById(db, r.id)
    IN  IF res.rows = <<>> THEN Reply(r, db, 404, ErrorBody("Pin not found"))
        ELSE Goto(r, db, [r EXCEPT !.pc = "deletePin",
                                   !.before = Some([row |-> res.rows[1],
                                                    tags |-> supportingTagsOf(db, r.id)])])

DELETE_pin_deletePin ==
  \E n \in At("DELETE /api/pins/[id]", "deletePin") :
    Reply(reqs[n], deletePin_db(db, reqs[n].id).db, 200, [success |-> TRUE])


(***************************************************************************)
(* GET /api/tags and GET /api/tags/[id]                                    *)
(***************************************************************************)
GET_tags_request == ArriveReq("pins", "GET /api/tags", "", None, "getTags", None)

GET_tags == GET_tags_request /\ UNCHANGED cvars

GET_tags_getTags ==
  \E n \in At("GET /api/tags", "getTags") :
    Reply(reqs[n], db, 200, [i \in DOMAIN getTags(db) |-> db.tags[getTags(db)[i]]])

GET_tag ==
  \E id \in TagIds : Arrive("pins", "GET /api/tags/[id]", id, None, "selectTag", None)

GET_tag_selectTag ==
  \E n \in At("GET /api/tags/[id]", "selectTag") :
    LET res == selectTag(db, reqs[n].id)
    IN  IF res.rows = <<>> THEN Reply(reqs[n], db, 404, ErrorBody("Tag not found"))
        ELSE Reply(reqs[n], db, 200, res.rows[1])

(***************************************************************************)
(* POST /api/tags                                                          *)
(***************************************************************************)
\* errorMessage.includes('23505') || errorMessage.includes('duplicate key')
IsDuplicateKey(m) == m = DuplicateKey

\* the catch block of the tag routes
CaughtTag(r, res) ==
  IF IsDuplicateKey(res.error[1])
  THEN Reply(r, res.db, 409, ErrorBody("A tag with this name already exists"))
  ELSE Caught(r, res)

POST_tags_request(data, gid) ==
  LET tag == [id |-> OrElse(data.id, gid), name |-> OrElse(data.name, ""),
              color |-> OrElse(data.color, "#cccccc")]
  IN  IF tag.name = "" \/ tag.color = ""
      THEN RefuseReq("pins", "POST /api/tags", "", data, 400,
                     ErrorBody("Name and color are required fields"))
      ELSE ArriveReq("pins", "POST /api/tags", "", data, "createTag", [tag |-> tag])

POST_tags ==
  \E data \in PostTagBodies : \E gid \in GeneratedIds :
    POST_tags_request(data, gid) /\ UNCHANGED cvars

POST_tags_createTag ==
  \E n \in At("POST /api/tags", "createTag") :
    LET tag == reqs[n].loc.tag
        r == [reqs[n] EXCEPT !.dup = TagIdsNamed(db, tag.name) \ {tag.id} # {}]
        res == createTag(db, tag)
    IN  IF res.error # None THEN CaughtTag(r, res)
        ELSE IF res.rows = <<>>
        THEN Reply(r, res.db, 500, ErrorBody("Failed to create tag"))
        ELSE Reply(r, res.db, 201, res.rows[1])

(***************************************************************************)
(* PUT /api/tags/[id]                                                      *)
(***************************************************************************)
PUT_tag ==
  \E id \in TagIds : \E data \in PutTagBodies :
    Arrive("pins", "PUT /api/tags/[id]", id, data, "selectTag", None)

PUT_tag_selectTag ==
  \E n \in At("PUT /api/tags/[id]", "selectTag") :
    LET r == reqs[n]
        res == selectTag(db, r.id)
    IN  IF res.rows = <<>> THEN Reply(r, db, 404, ErrorBody("Tag not found"))
        ELSE Goto(r, db, [r EXCEPT !.pc = "updateTag",
                                   !.loc = [existingTag |-> res.rows[1]]])

PUT_tag_updateTag ==
  \E n \in At("PUT /api/tags/[id]", "updateTag") :
    LET existingTag == reqs[n].loc.existingTag
        data == reqs[n].data
        updates == [name |-> OrElse(IF data.name # None THEN data.name
                                    ELSE Some(existingTag.name), ""),
                    color |-> OrElse(IF data.color # None THEN data.color
                                     ELSE Some(existingTag.color), "")]
        r == [reqs[n] EXCEPT !.dup = TagIdsNamed(db, updates.name) \ {reqs[n].id} # {}]
        res == updateTag_db(db, r.id, updates)
    IN  IF res.error # None THEN CaughtTag(r, res)
        ELSE IF res.rows = <<>>
        THEN Reply(r, res.db, 500, ErrorBody("Failed to update tag"))
        ELSE Reply(r, res.db, 200, res.rows[1])

(***************************************************************************)
(* DELETE /api/tags/[id]                                                   *)
(***************************************************************************)
\* some stored pin has the name as its main tag or as a supporting tag
Referenced(d, name) == pinsWithMainTag(d, name) # {} \/ supportingTagUse(d, name) # {}

DELETE_tag ==
  \E id \in TagIds : Arrive("pins", "DELETE /api/tags/[id]", id, None, "selectTag", None)

DELETE_tag_selectTag ==
  \E n \in At("DELETE /api/tags/[id]", "selectTag") :
    LET r == reqs[n]
        res == selectTag(db, r.id)
    IN  IF res.rows = <<>> THEN Reply(r, db, 404, ErrorBody("Tag not found"))
        ELSE Goto(r, db, [r EXCEPT !.pc = "pinWithTag",
                                   !.loc = [existingTag |-> res.rows[1]]])

DELETE_tag_pinWithTag ==
  \E n \in At("DELETE /api/tags/[id]", "pinWithTag") :
    LET r == reqs[n]
    IN  IF pinsWithMainTag(db, r.loc.existingTag.name) # {}
        THEN Reply([r EXCEPT !.refd = TRUE], db, 400,
                   ErrorBody("Cannot delete tag that is used as a main tag by pins"))
        ELSE Goto(r, db, [r EXCEPT !.pc = "supportingTagUse"])

DELETE_tag_supportingTagUse ==
  \E n \in At("DELETE /api/tags/[id]", "supportingTagUse") :
    LET r == reqs[n]
    IN  IF supportingTagUse(db, r.loc.existingTag.name) # {}
        THEN Reply([r EXCEPT !.refd = TRUE], db, 400,
                   ErrorBody("Cannot delete tag that is used as a supporting tag by pins"))
        ELSE Goto(r, db, [r EXCEPT !.pc = "deleteTag"])

DELETE_tag_deleteTag ==
  \E n \in At("DELETE /api/tags/[id]", "deleteTag") :
    LET stored == reqs[n].id \in DOMAIN db.tags
        r == [reqs[n] EXCEPT !.removed = stored,
                             !.refd = stored /\ Referenced(db, db.tags[reqs[n].id].name)]
    IN  Reply(r, deleteTag_db(db, r.id).db, 200, [success |-> TRUE])

(***************************************************************************)
(* /api/boundary                                                           *)
(***************************************************************************)
\* Transform to frontend format
toBoundary(row) ==
  [name |-> row.name, coordinates |-> row.coordinates,
   minZoom |-> row.min_zoom, maxZoom |-> row.max_zoom]

GET_boundary == Arrive("boundary", "GET /api/boundary", "", None, "getRegionBoundary", None)

\* SELECT * FROM region_boundaries LIMIT 1: any one row
GET_boundary_getRegionBoundary ==
  \E n \in At("GET /api/boundary", "getRegionBoundary") :
    IF db.region_boundaries = {}
    THEN Reply(reqs[n], db, 404, ErrorBody("No region boundary defined"))
    ELSE \E row \in db.region_boundaries : Reply(reqs[n], db, 200, toBoundary(row))

\* Validate required fields; Check coordinates format
ValidBoundary(data) ==
  /\ Truthy(data.name)
  /\ data.coordinates # None
  /\ data.coordinates[1].arr
  /\ data.coordinates[1].pairs

PUT_boundary ==
  \E data \in PutBoundaryBodies :
    IF ~ValidBoundary(data)
    THEN Refuse("boundary", "PUT /api/boundary", "", data, 400,
                ErrorBody("Name and coordinates are required fields"))
    ELSE Arrive("boundary", "PUT /api/boundary", "", data, "deleteBoundaries",
                [boundary |-> [name |-> data.name[1],
                               coordinates |-> data.coordinates[1],
                               min_zoom |-> OrElseNum(data.minZoom, 5),
                               max_zoom |-> OrElseNum(data.maxZoom, 18)]])

\* setRegionBoundary: Delete any existing boundary first
PUT_boundary_deleteBoundaries ==
  \E n \in At("PUT /api/boundary", "deleteBoundaries") :
    Goto(reqs[n], deleteBoundaries(db).db, [reqs[n] EXCEPT !.pc = "insertBoundary"])

PUT_boundary_insertBoundary ==
  \E n \in At("PUT /api/boundary", "insertBoundary") :
    LET res == insertBoundary(db, reqs[n].loc.boundary)
    IN  Reply(reqs[n], res.db, 200, toBoundary(res.rows[1]))

DELETE_boundary ==
  Arrive("boundary", "DELETE /api/boundary", "", None, "deleteBoundaries", None)

DELETE_boundary_deleteBoundaries ==
  \E n \in At("DELETE /api/boundary", "deleteBoundaries") :
    Reply(reqs[n], deleteBoundaries(db).db, 200, [success |-> TRUE])

(***************************************************************************)
(* /api/settings                                                           *)
(***************************************************************************)
\* Transform to frontend format
toSettings(row) ==
  [defaultCenter |-> row.default_center, defaultZoom |-> row.default_zoom]

GET_settings == Arrive("settings", "GET /api/settings", "", None, "getMapSettings", None)

\* SELECT * FROM map_settings LIMIT 1: any one row
GET_settings_getMapSettings ==
  \E n \in At("GET /api/settings", "getMapSettings") :
    IF db.map_settings = {}
    THEN Reply(reqs[n], db, 404, ErrorBody("No map settings defined"))
    ELSE \E row \in db.map_settings : Reply(reqs[n], db, 200, toSettings(row))

\* Validate required fields
ValidSettings(data) ==
  /\ data.defaultCenter # None
  /\ data.defaultCenter[1].arr
  /\ data.defaultZoom # None

PUT_settings ==
  \E data \in PutSettingsBodies :
    IF ~ValidSettings(data)
    THEN Refuse("settings", "PUT /api/settings", "", data, 400,
                ErrorBody("defaultCenter and defaultZoom are required fields"))
    ELSE Arrive("settings", "PUT /api/settings", "", data, "getMapSettings",
                [settings |-> [default_center |-> data.defaultCenter[1],
                               default_zoom |-> data.defaultZoom[1]]])

\* updateMapSettings: If no settings exist, create them
PUT_settings_getMapSettings ==
  \E n \in At("PUT /api/settings", "getMapSettings") :
    Goto(reqs[n], db, [reqs[n] EXCEPT !.pc = IF db.map_settings = {}
                                             THEN "insertSettings"
                                             ELSE "updateSettings"])

PUT_settings_insertSettings ==
  \E n \in At("PUT /api/settings", "insertSettings") :
    LET res == insertSettings(db, reqs[n].loc.settings)
    IN  Reply(reqs[n], res.db, 200, toSettings(res.rows[1]))

PUT_settings_updateSettings ==
  \E n \in At("PUT /api/settings", "updateSettings") :
    LET res == updateSettings(db, reqs[n].loc.settings)
    IN  \E row \in res.rows : Reply(reqs[n], res.db, 200, toSettings(row))


(***************************************************************************)
(* The server on its own: the page makes no call.                          *)
(***************************************************************************)
ClientOff ==
  /\ pins = <<>>
  /\ tags = seedTags
  /\ regionBoundary = None
  /\ mapSettings = defaultMapSettings
  /\ isLoading = [c \in Coll |-> FALSE]
  /\ error = [c \in Coll |-> Null]
  /\ selectedPinId = Null
  /\ filterTags = <<>>
  /\ ops = {}
  /\ all = AllIdle
  /\ last = NoEvent
  /\ calls = 0
  /\ focus = "none"

\* the tables as initDatabase creates them
FreshDb ==
  [pins |-> <<>>, pin_supporting_tags |-> {}, tags |-> <<>>,
   region_boundaries |-> {}, map_settings |-> {},
   serial |-> [region_boundaries |-> 1, map_settings |-> 1], now |-> 1]

\* initializeDatabase (src/lib/db/init.ts), which the server runs when it
\* starts in dev mode: the initial tags, the sample boundary, the initial
\* settings and a sample pin, cut to two tags and one pin
Seeded(d) ==
  LET d1 == createTag(d, [id |-> "t1", name |-> "health", color |-> "blue"]).db
      d2 == createTag(d1, [id |-> "t2", name |-> "culture", color |-> "red"]).db
      d3 == insertSettings(d2, [default_center |-> Position(52, 19),
                                default_zoom |-> DefaultZoom]).db
      d4 == insertBoundary(deleteBoundaries(d3).db,
                           [name |-> "r1", coordinates |-> Coordinates("c1"),
                            min_zoom |-> 5, max_zoom |-> 18]).db
  IN  createPin(d4, [id |-> "p1", title |-> "a", position_lat |-> 1,
                     position_lng |-> 0, main_tag |-> "culture",
                     content |-> <<TextBlock>>]).db

initializeDatabase ==
  /\ group = "none" /\ log = <<>> /\ Idle
  /\ db = FreshDb
  /\ db' = Seeded(db)
  /\ group' = "seeded"
  /\ UNCHANGED <<reqs, log, handling, cvars>>

\* the server after initDatabase
ServerUp ==
  /\ ClientOff
  /\ db = FreshDb
  /\ reqs = <<>>
  /\ log = <<>>
  /\ group = "none"

InitServer == ServerUp /\ handling = "concurrent"
InitSerial == ServerUp /\ handling = "serial"

NextServer ==
  \/ initializeDatabase
  \/ GET_pins \/ GET_pins_getPins \/ GET_pins_selectTags
  \/ GET_tags \/ GET_tags_getTags \/ GET_tag \/ GET_tag_selectTag
  \/ POST_pins \/ POST_pins_createPin \/ POST_pins_addPinSupportingTag
  \/ GET_pin \/ GET_pin_getPinById \/ GET_pin_selectTags
  \/ PUT_pin \/ PUT_pin_getPinById \/ PUT_pin_updatePin \/ PUT_pin_deleteTags
  \/ PUT_pin_addPinSupportingTag \/ PUT_pin_selectTags
  \/ DELETE_pin \/ DELETE_pin_getPinById \/ DELETE_pin_deletePin
  \/ POST_tags \/ POST_tags_createTag
  \/ PUT_tag \/ PUT_tag_selectTag \/ PUT_tag_updateTag
  \/ DELETE_tag \/ DELETE_tag_selectTag \/ DELETE_tag_pinWithTag
  \/ DELETE_tag_supportingTagUse \/ DELETE_tag_deleteTag
  \/ GET_boundary \/ GET_boundary_getRegionBoundary
  \/ PUT_boundary \/ PUT_boundary_deleteBoundaries \/ PUT_boundary_insertBoundary
  \/ DELETE_boundary \/ DELETE_boundary_deleteBoundaries
  \/ GET_settings \/ GET_settings_getMapSettings
  \/ PUT_settings \/ PUT_settings_getMapSettings \/ PUT_settings_insertSettings
  \/ PUT_settings_updateSettings

\* requests that may overlap
SpecServer == InitServer /\ [][NextServer]_vars
\* requests one after the other
SpecSerial == InitSerial /\ [][NextServer]_vars

(***************************************************************************)
(* The store and the server together: the pin and tag functions of the     *)
(* store send their requests to the route handlers above and resume on the *)
(* answers of these handlers.  Every request reaches the server and every  *)
(* answer reaches the store; answers arrive in any order.                  *)
(***************************************************************************)
MaxAppList == 4      \* longest mirror of the store in these runs

\* pinData of addPin: the pin of the caller with the id generateId() gave
AddPinBodies ==
  LET sent == {d \in PostPinBodies : Truthy(d.id)}
  IN  sent \cup {[d EXCEPT !.supportingTags = Some(<<"culture">>)] : d \in sent}

\* tagData of addTag(name, color): the id generateId() gave, name and color
AddTagBodies ==
  {[id |-> Some("t3"), name |-> Some(name), color |-> Some("red")] :
     name \in {"health", "sport"}}

\* fetch resolves with the answer the handler gave: response.json() yields
\* the list of a list route and the record of any other answer
ResponseOf(e) ==
  [status |-> e.status, json |-> TRUE,
   data |-> IF e.req.route \in {"GET /api/pins", "GET /api/tags"} /\ e.status = 200
            THEN e.body ELSE Some(e.body)]

App_loadPins == CallFn("loadPins", Null, Received + 1) /\ GET_pins_request
App_loadTags == CallFn("loadTags", Null, Received + 1) /\ GET_tags_request

App_addPin ==
  \E data \in AddPinBodies : \E gid \in GeneratedIds :
    CallFn("addPin", Null, Received + 1) /\ POST_pins_request(data, gid)

App_deletePin ==
  \E id \in PinIds : CallFn("deletePin", id, Received + 1) /\ DELETE_pin_request(id)

App_addTag ==
  \E data \in AddTagBodies : \E gid \in GeneratedIds :
    CallFn("addTag", data.name[1], Received + 1) /\ POST_tags_request(data, gid)

\* the call of fn resumes on the answer to its request
App_settle(fn) ==
  \E o \in ops : \E k \in DOMAIN log :
    /\ log[k].req.n = o.n
    /\ SettleOn(fn, o, ResponseOf(log[k]), [pins |-> MaxAppList, tags |-> MaxAppList])
    /\ UNCHANGED svars

App_loadPins_settle == App_settle("loadPins")
App_loadTags_settle == App_settle("loadTags")
App_addPin_settle == App_settle("addPin")
App_deletePin_settle == App_settle("deletePin")
App_addTag_settle == App_settle("addTag")

InitApp == ServerUp /\ handling = "concurrent"

NextApp ==
  \/ initializeDatabase
  \/ App_loadPins \/ App_addPin \/ App_deletePin \/ App_loadTags \/ App_addTag
  \/ GET_pins_getPins \/ GET_pins_selectTags
  \/ POST_pins_createPin \/ POST_pins_addPinSupportingTag
  \/ DELETE_pin_getPinById \/ DELETE_pin_deletePin
  \/ GET_tags_getTags \/ POST_tags_createTag
  \/ App_loadPins_settle \/ App_addPin_settle \/ App_deletePin_settle
  \/ App_loadTags_settle \/ App_addTag_settle

SpecApp == InitApp /\ [][NextApp]_vars


(***************************************************************************)
(* Properties of the server.                                               *)
(***************************************************************************)
\* the first m requests answered ran one after the other, each arriving after
\* the answer to the one before it, and every other request arrived after the
\* m-th answer
SequentialUpTo(m) ==
  /\ \A k \in DOMAIN log : log[k].req.began >= (IF k <= m THEN k - 1 ELSE m)
  /\ \A n \in DOMAIN reqs : reqs[n].began >= m
\* no two requests of the run overlapped
Sequential == SequentialUpTo(Len(log))
Route(k) == log[k].req.route
NoDuplicates(q) == \A i, j \in DOMAIN q : q[i] = q[j] => i = j

\* C11: DELETE /api/tags/{id} removes no tag row and answers with a client
\* error whenever a stored pin references the tag's name as main or supporting
\* tag (refd: a pin referenced the name when the handler checked or when its
\* DELETE statement ran).
C11_AsStated ==
  \A k \in DOMAIN log :
    (Route(k) = "DELETE /api/tags/[id]" /\ log[k].req.refd)
      => (~log[k].req.removed /\ log[k].status \in 400..499)

\* C12: under any interleaving of PUT and DELETE /api/boundary at most one
\* region-boundary row exists.
C12_AsStated == Cardinality(db.region_boundaries) <= 1

\* the last three requests of a run of non-overlapping requests
LastThree(r1, r2, r3) ==
  /\ Idle /\ Sequential /\ Len(log) >= 3
  /\ Route(Len(log) - 2) = r1 /\ log[Len(log) - 2].status = 200
  /\ Route(Len(log) - 1) = r2 /\ log[Len(log) - 1].status = 200
  /\ Route(Len(log)) = r3

\* C13: after two successful PUT /api/boundary one after the other, exactly
\* one boundary is stored and GET /api/boundary returns the name, coordinates
\* and zoom range of the second request (a request that gives a zoom range).
C13_AsStated ==
  LET second == log[Len(log) - 1].req.data
  IN  (/\ LastThree("PUT /api/boundary", "PUT /api/boundary", "GET /api/boundary")
       /\ second.minZoom # None /\ second.maxZoom # None)
        => /\ Cardinality(db.region_boundaries) = 1
           /\ log[Len(log)].status = 200
           /\ log[Len(log)].body = [name |-> second.name[1],
                                    coordinates |-> second.coordinates[1],
                                    minZoom |-> second.minZoom[1],
                                    maxZoom |-> second.maxZoom[1]]

\* C14: under any interleaving of PUT /api/settings at most one settings row
\* exists.
C14_AsStated == Cardinality(db.map_settings) <= 1

\* what a PUT /api/pins/[id] with this body writes: its columns and, when it
\* gives supportingTags, the tag set
WrittenBy(data, id) ==
  /\ \A key \in UpdateKeys(UpdatesOf(data)) : db.pins[id][key] = UpdatesOf(data)[key][1]
  /\ data.supportingTags # None => supportingTagsOf(db, id) = Range(TagsOf(data))

\* the fields a PUT body sets
FieldsOf(data) == {f \in DOMAIN data : data[f] # None}

\* C15: two concurrent PUT /api/pins/{id} that set the same fields of the same
\* pin leave the pin (columns and supporting-tag set) as written by exactly
\* one of them, never a mixture.
C15_AsStated ==
  (/\ Idle /\ Len(log) = 2
   /\ Route(1) = "PUT /api/pins/[id]" /\ Route(2) = "PUT /api/pins/[id]"
   /\ log[1].status = 200 /\ log[2].status = 200
   /\ log[1].req.began = 0 /\ log[2].req.began = 0
   /\ log[1].req.id = log[2].req.id
   /\ FieldsOf(log[1].req.data) = FieldsOf(log[2].req.data))
    => \/ WrittenBy(log[1].req.data, log[1].req.id)
       \/ WrittenBy(log[2].req.data, log[1].req.id)

\* a POST /api/pins body with a title, a position, a main tag, empty
\* supporting tags and one content block
GivenPin(data) ==
  /\ Truthy(data.title)
  /\ data.position # None /\ data.position[1].arr
  /\ data.mainTag # None
  /\ data.supportingTags = Some(<<>>)
  /\ data.content # None /\ Len(data.content[1]) = 1

\* request k + 1 reads the pin that request k created
CreatedThenRead(k) ==
  /\ k + 1 \in DOMAIN log
  /\ Route(k) = "POST /api/pins" /\ log[k].status = 201 /\ GivenPin(log[k].req.data)
  /\ Route(k + 1) = "GET /api/pins/[id]" /\ log[k + 1].req.id = log[k].body.id

\* C16: creating a pin with POST /api/pins and then reading it with
\* GET /api/pins/{id} returns the same title, position, main tag and content,
\* and the created pin has updatedAt equal to createdAt.
C16_CreateThenRead ==
  \A k \in DOMAIN log :
    /\ (Route(k) = "POST /api/pins" /\ log[k].status = 201)
         => log[k].body.updatedAt = log[k].body.createdAt
    /\ (SequentialUpTo(k + 1) /\ CreatedThenRead(k))
         => LET data == log[k].req.data
                read == log[k + 1]
            IN  /\ read.status = 200
                /\ read.body.title = data.title[1]
                /\ read.body.position = <<data.position[1].lat, data.position[1].lng>>
                /\ read.body.mainTag = data.mainTag[1]
                /\ read.body.content = data.content[1]
                /\ read.body.supportingTags = <<>>

\* C16 witness: a created pin with a position of two different numbers was
\* read back.
C16_Witness ==
  \E k \in DOMAIN log :
    /\ SequentialUpTo(k + 1) /\ CreatedThenRead(k)
    /\ log[k + 1].status = 200
    /\ log[k].req.data.position[1].lat # log[k].req.data.position[1].lng

\* the last request, handled alone, was a successful PUT /api/pins/[id] whose
\* body holds only a title
TitleOnlyPut ==
  /\ Idle /\ Sequential /\ log # <<>>
  /\ Route(Len(log)) = "PUT /api/pins/[id]" /\ log[Len(log)].status = 200
  /\ FieldsOf(log[Len(log)].req.data) = {"title"}

\* C17: a PUT /api/pins/{id} whose body contains only a title leaves the pin's
\* position, main tag, supporting tags, content, id and createdAt unchanged,
\* sets the title, and advances updatedAt.
C17_TitleOnly ==
  TitleOnlyPut =>
    LET e == log[Len(log)]
        old == e.req.before[1]
        new == db.pins[e.req.id]
    IN  /\ new.position_lat = old.row.position_lat
        /\ new.position_lng = old.row.position_lng
        /\ new.main_tag = old.row.main_tag
        /\ new.content = old.row.content
        /\ new.id = old.row.id
        /\ new.created_at = old.row.created_at
        /\ supportingTagsOf(db, e.req.id) = old.tags
        /\ new.title = e.req.data.title[1]
        /\ new.updated_at > old.row.updated_at
        /\ \E order \in Orderings(old.tags) : e.body = toPin(new, order)

\* C17 witness: the title of a pin with a supporting tag was changed.
C17_Witness ==
  /\ TitleOnlyPut
  /\ log[Len(log)].req.before[1].tags # {}
  /\ log[Len(log)].req.before[1].row.title # log[Len(log)].req.data.title[1]

\* C18: a POST /api/tags or PUT /api/tags/{id} with a name that another stored
\* tag already has (dup: when the handler's INSERT or UPDATE ran) is answered
\* with status 409.
C18_AsStated ==
  \A k \in DOMAIN log :
    (Route(k) \in {"POST /api/tags", "PUT /api/tags/[id]"} /\ log[k].req.dup)
      => log[k].status = 409

\* a body in which a required field is missing or of the wrong type
Malformed(route, data) ==
  CASE route = "POST /api/pins" ->
         \/ data.title = None \/ data.mainTag = None
         \/ data.position = None \/ ~data.position[1].arr
    [] route = "POST /api/tags" -> data.name = None
    [] route = "PUT /api/boundary" -> ~ValidBoundary(data)
    [] route = "PUT /api/settings" -> ~ValidSettings(data)
    [] OTHER -> FALSE

\* C19: every create or update endpoint answers a request whose required
\* fields are missing or of the wrong type with status 400 and changes nothing
\* in storage.
C19_AsStated ==
  \A k \in DOMAIN log :
    Malformed(Route(k), log[k].req.data)
      => (log[k].status = 400 /\ ~log[k].req.wrote)

\* the answers that carry a pin
PinAnswer(k) ==
  /\ Route(k) \in {"POST /api/pins", "GET /api/pins/[id]", "PUT /api/pins/[id]"}
  /\ log[k].status \in {200, 201}

\* C20: no pin has the same supporting tag twice: in storage (the rows of
\* pin_supporting_tags, one per pin and tag name) and in any pin the API
\* returns.
C20_AsStated ==
  \A k \in DOMAIN log : PinAnswer(k) => NoDuplicates(log[k].body.supportingTags)

\* the last two requests of a run of non-overlapping requests
LastTwo(r1, r2) ==
  /\ Idle /\ Sequential /\ Len(log) >= 2
  /\ Route(Len(log) - 1) = r1 /\ Route(Len(log)) = r2

\* the pin has the name as main tag or as a supporting tag
UsedBy(pin, name) == pin.row.main_tag = name \/ name \in pin.tags

\* a successful DELETE /api/pins/[id] followed by a DELETE /api/tags/[id] of
\* a stored tag that the deleted pin used and no stored pin uses
DeletedPinThenTag ==
  /\ LastTwo("DELETE /api/pins/[id]", "DELETE /api/tags/[id]")
  /\ log[Len(log) - 1].status = 200
  /\ log[Len(log)].status # 404
  /\ UsedBy(log[Len(log) - 1].req.before[1], log[Len(log)].req.loc.existingTag.name)
  /\ ~Referenced(db, log[Len(log)].req.loc.existingTag.name)

\* C21: after a successful DELETE /api/pins/{id} no supporting-tag
\* association of that pin remains in storage (no association names a pin
\* that is not stored), so a tag used only by that pin can then be deleted.
C21_DeleteCascades ==
  /\ \A t \in db.pin_supporting_tags : t[1] \in DOMAIN db.pins
  /\ (Idle /\ Sequential /\ log # <<>>
        /\ Route(Len(log)) = "DELETE /api/pins/[id]" /\ log[Len(log)].status = 200)
       => /\ log[Len(log)].req.id \notin DOMAIN db.pins
          /\ supportingTagsOf(db, log[Len(log)].req.id) = {}
  /\ DeletedPinThenTag
       => /\ log[Len(log)].status = 200
          /\ log[Len(log)].req.removed
          /\ log[Len(log)].req.id \notin DOMAIN db.tags

\* C21 witness: a pin with a supporting tag was deleted and then the tag,
\* which only that pin used as a supporting tag.
C21_Witness ==
  /\ DeletedPinThenTag
  /\ log[Len(log)].req.loc.existingTag.name \in log[Len(log) - 1].req.before[1].tags
  /\ log[Len(log)].status = 200

\* a body as the client's addPin sends it: pinData = {...pin, id: generateId()}
FromAddPin(data) == Truthy(data.id)

\* POST /api/pins answered request k with the created pin
Created(k) == Route(k) = "POST /api/pins" /\ log[k].status = 201

\* C22 as stated: a pin created by the add operation has its id and both
\* timestamps assigned by the server; the id of the stored pin is not chosen
\* by the client.
C22_AsStated ==
  \A k \in DOMAIN log :
    (Created(k) /\ FromAddPin(log[k].req.data))
      => /\ log[k].body.id \in GeneratedIds
         /\ log[k].body.id # log[k].req.data.id[1]
         /\ log[k].body.createdAt = log[k].req.clock
         /\ log[k].body.updatedAt = log[k].req.clock

\* C22 (amended): a pin created by the add operation has both timestamps
\* assigned by the server (the database clock at the INSERT, whatever the
\* request carries); its id is the id the request carries, which the client's
\* addPin generates, and the server generates an id only for a request that
\* carries none.
C22_IdFromRequest ==
  \A k \in DOMAIN log :
    Created(k)
      => /\ log[k].body.createdAt = log[k].req.clock
         /\ log[k].body.updatedAt = log[k].req.clock
         /\ FromAddPin(log[k].req.data) => log[k].body.id = log[k].req.data.id[1]
         /\ ~FromAddPin(log[k].req.data) => log[k].body.id \in GeneratedIds
         /\ (SequentialUpTo(k) /\ Len(log) = k /\ Idle)
              => /\ log[k].body.id \in DOMAIN db.pins
                 /\ db.pins[log[k].body.id].created_at = log[k].req.clock

\* C22 witness: addPin's request, carrying the client's id and a timestamp of
\* the client, was stored under the client's id with the server's time.
C22_Witness ==
  \E k \in DOMAIN log :
    /\ Created(k) /\ FromAddPin(log[k].req.data)
    /\ log[k].req.data.createdAt # None
    /\ log[k].body.createdAt # log[k].req.data.createdAt[1]
    /\ log[k].body.id \notin GeneratedIds
    /\ log[k].body.id \in DOMAIN db.pins

(***************************************************************************)
(* Properties of the client, continued.                                    *)
(***************************************************************************)
\* C23: when no settings record exists on the server (GET /api/settings
\* answers 404), the settings mirror after loadMapSettings has completed
\* equals the hard-coded default settings, whatever it held before.
C23_AsStated ==
  (Settled /\ last.fn = "loadMapSettings" /\ last.resp.status = 404)
    => mapSettings = defaultMapSettings

(***************************************************************************)
(* Properties of the server: updates of the supporting tags.               *)
(***************************************************************************)
\* the last request, handled alone, was a PUT /api/pins/[id] for a stored pin
\* whose body holds only supportingTags
TagsOnlyPut ==
  /\ Idle /\ Sequential /\ log # <<>>
  /\ Route(Len(log)) = "PUT /api/pins/[id]"
  /\ log[Len(log)].req.before # None
  /\ FieldsOf(log[Len(log)].req.data) = {"supportingTags"}

\* C24: a PUT /api/pins/{id} for an existing pin whose body contains only
\* supportingTags replaces the pin's stored supporting-tag set by the given
\* tags and answers 200 with the updated pin.
C24_AsStated ==
  TagsOnlyPut =>
    LET e == log[Len(log)]
    IN  /\ e.status = 200
        /\ supportingTagsOf(db, e.req.id) = Range(TagsOf(e.req.data))
        /\ \E order \in Orderings(Range(TagsOf(e.req.data))) :
             e.body = toPin(db.pins[e.req.id], order)

(***************************************************************************)
(* Properties of the client: the optional records.                         *)
(***************************************************************************)
\* loadRegionBoundary has just completed on the answer 404
BoundaryAbsent ==
  Settled /\ last.fn = "loadRegionBoundary" /\ last.resp.status = 404

\* C25 as stated: when GET /api/boundary answers 404, loadRegionBoundary sets
\* the boundary mirror to null, leaves the boundary error flag null, and
\* clears the loading flag.
C25_AsStated ==
  BoundaryAbsent
    => (regionBoundary = None /\ boundaryError = Null /\ ~isLoadingBoundary)

\* C25 (amended): when GET /api/boundary answers 404, loadRegionBoundary sets
\* the boundary mirror to null, clears the loading flag and does not touch
\* the boundary error flag: the flag is null when the load was the only
\* boundary operation (it cleared the flag when it started), and it keeps the
\* message of a boundary operation that failed while the load was in flight.
C25_BoundaryAbsent ==
  BoundaryAbsent
    => /\ regionBoundary = None
       /\ ~isLoadingBoundary
       /\ boundaryError = last.errPre
       /\ (calls = 1 \/ last.by = 0) => boundaryError = Null

\* C25 witness: the mirror held a boundary when the 404 arrived.
C25_Witness ==
  /\ BoundaryAbsent /\ last.pre # None
  /\ regionBoundary = None /\ boundaryError = Null /\ ~isLoadingBoundary

(***************************************************************************)
(* Properties of the server, continued.                                    *)
(***************************************************************************)
\* C26: if POST /api/pins answers with an error status, no pin row has been
\* added to storage by that request (wrote: a statement of the request
\* changed the tables, and the first statement that can is the INSERT of the
\* pin row).
C26_AsStated ==
  \A k \in DOMAIN log :
    (Route(k) = "POST /api/pins" /\ log[k].status \notin 200..299)
      => ~log[k].req.wrote

(***************************************************************************)
(* Properties of the client: overlapping operations.                       *)
(***************************************************************************)
\* C27: at every moment at which a load or a mutation on a collection is in
\* flight, the loading flag of the collection is true, also when several
\* operations on the collection overlap.
C27_AsStated == \A o \in ops : isLoading[CollOf(o.fn)]


(***************************************************************************)
(* Properties of the store and the server together.                        *)
(***************************************************************************)
\* C28 as stated: after any sequence of store operations, starting from a
\* mirror whose ids are distinct, no two entries of the tag mirror share an id
\* and no two entries of the pin mirror share an id.
C28_AsStated == DistinctIds(tags) /\ DistinctIds(pins)

\* the calls of fn that have resumed on the answer status: the log entries
\* of their requests
Resumed(route, status) ==
  {k \in DOMAIN log : /\ Route(k) = route /\ log[k].status = status
                      /\ \A o \in ops : o.n # log[k].req.n}

\* the ids of the pins addPin has appended and deletePin has removed
AddedPins == {log[k].body.id : k \in Resumed("POST /api/pins", 201)}
DeletedPins == {log[k].req.id : k \in Resumed("DELETE /api/pins/[id]", 200)}

\* C29 as stated: once addPin has succeeded and appended the created pin, the
\* pin stays in the pin mirror until it is deleted; a loadPins that started
\* before the add and completes after it does not remove it.
C29_AsStated ==
  \A id \in AddedPins \ DeletedPins : \E i \in DOMAIN pins : pins[i].id = id


(***************************************************************************)
(* Properties of the server: references between the tables.                *)
(***************************************************************************)
\* the names of the stored tags
StoredTagNames == {db.tags[i].name : i \in DOMAIN db.tags}

\* C30 as stated: after any sequence of pin and tag requests, every tag name
\* a stored pin references, as main tag or as supporting tag, is the name of
\* a stored tag.
C30_AsStated ==
  (Idle /\ log # <<>>) =>
    \A i \in DOMAIN db.pins :
      /\ db.pins[i].main_tag \in StoredTagNames
      /\ supportingTagsOf(db, i) \subseteq StoredTagNames

====
